---- MODULE Spec2Model ----
(***************************************************************************)
(* A model of AudioToolbox::AudioGraph (src/src/lib.rs): the node arena,   *)
(* the topology map (NodeTree), the connection validation and the          *)
(* explicit-stack traversal that orders process_block.                     *)
(*                                                                         *)
(* Node ids are 0-based as in the source; TLA+ sequences are 1-based, so   *)
(* the node with id i lives at index i + 1 of nodes / graph_map /          *)
(* iter_stack.  Option<usize> is modelled by an integer with None == -1.   *)
(***************************************************************************)
EXTENDS Integers, Sequences, FiniteSets, TLC

\* ------------------------------------------------------------------ bounds
\* Largest arena length (the sink included) under Spec, where callers register
\* and wire nodes passing any ids and ports, valid or not.
MaxNodes == 3
\* Largest arena length (the sink included) under SpecTraversal, where callers
\* register nodes, wire them with calls that succeed and run process_block.
MaxTreeNodes == 4
\* Declared input count of the multi-input (Mixer) node kind; MaxInputs itself
\* is a port that is out of range for every node.
MaxInputs == 2
\* Largest arena length (the sink included) under SpecLifecycle, where callers
\* register, wire, prepare and run process_block on a buffer.
MaxLifeNodes == 3
\* Number of visited ids process_block's log keeps (longer runs saturate).
MaxLog == MaxTreeNodes + 2
\* Length of the buffer handed to process_block (tests::run_audio_graph).
BlockSize == 4
\* Samples are fixed point: the sample 1.0 is One, and halving a sample below
\* the resolution gives 0 (as f32 does below its smallest subnormal).
One == 2 ^ (MaxLifeNodes + 1)

None == -1

\* ------------------------------------------------------------------ state
VARIABLES
    nodes,                \* AudioGraph.nodes: the arena of AudioNode objects
    graph_map,            \* AudioGraph.graph_map.nodes: MapNode per id
    iter_stack,           \* AudioGraph.iter_stack: (node_id, num_children, child_index)
    iter_stack_size,      \* AudioGraph.iter_stack_size
    audio_runtime_params, \* AudioGraph.audio_runtime_params
    pc,                   \* "idle" | "processing" (inside process_block) | "panicked"
    visitLog,             \* ids handed to AudioNode::process_block by the process_block call
                          \* that is running or was the last public call
    lastOp,               \* the last public call, what it returned, and its arguments when
                          \* it changed the graph
    outputConnects,       \* number of connect_node_to_output calls that returned Ok
    initLog,              \* ids whose init hook the last public call (a prepare) called
    buffer,               \* the caller's buffer of the process_block call that is running
                          \* or was the last public call (<<>> otherwise)
    prevLog               \* the ids processed by the last process_block call that returned
                          \* since the topology map last changed (<<>> when there is none)

vars == <<nodes, graph_map, iter_stack, iter_stack_size, audio_runtime_params,
          pc, visitLog, lastOp, outputConnects, initLog, buffer, prevLog>>

graph == <<nodes, graph_map, iter_stack, iter_stack_size, audio_runtime_params>>

\* ------------------------------------------------------------------ nodes
\* The configuration a model node holds before its first init
\* (TestGenNode::new, TestFXNode::new).  Nodes without an init hook keep it.
NoParams == [sampling_freq |-> 0, buffer_size |-> 0]

\* OutputNode::new
OutputNode == [node_type |-> "Output", num_inputs |-> 1, next_available_input |-> 0,
               params |-> NoParams]

\* The nodes a caller can hand to add_new_node: the model nodes of ModelNodes
\* and a multi-input node that accounts for its ports the way TestFXNode does.
\* (ModelNodes::TestNode accounts for its one port exactly as TestFXNode does.)
TestGenNode == [node_type |-> "Generator", num_inputs |-> 0, next_available_input |-> 0,
                params |-> NoParams]
TestFXNode == [node_type |-> "Effect", num_inputs |-> 1, next_available_input |-> 0,
               params |-> NoParams]
TestOutputNode == [node_type |-> "Output", num_inputs |-> 0, next_available_input |-> 0,
                   params |-> NoParams]
MixerNode == [node_type |-> "Mixer", num_inputs |-> MaxInputs, next_available_input |-> 0,
              params |-> NoParams]

NewNodes == {TestGenNode, TestFXNode, TestOutputNode, MixerNode}

\* AudioNode::get_number_of_inputs
get_number_of_inputs(n) == n.num_inputs

\* AudioNode::get_next_available_input
get_next_available_input(n) ==
    IF n.node_type = "Generator" \/ n.num_inputs = 0
    THEN None
    ELSE IF n.next_available_input < n.num_inputs
         THEN n.next_available_input
         ELSE None

\* connect_input with the trait's default body: the port is never consumed.
connect_input_default(n) == n

\* AudioNode::connect_input
connect_input(n) ==
    IF n.node_type = "Output"
    THEN IF n.next_available_input <= n.num_inputs
         THEN [n EXCEPT !.next_available_input = @ + 1]
         ELSE n
    ELSE IF n.node_type = "Generator"
    THEN n
    ELSE IF n.next_available_input < n.num_inputs
         THEN [n EXCEPT !.next_available_input = @ + 1]
         ELSE n

\* AudioNode::init: the model generator and effect copy the configuration; the
\* trait's default (the sink, other nodes) does nothing.
init(n, audio_runtime_parameters) ==
    IF n.node_type \in {"Generator", "Effect"}
    THEN [n EXCEPT !.params = audio_runtime_parameters]
    ELSE n

\* AudioNode::process_block on the caller's buffer: the generator writes 1.0 to
\* the first buffer_size samples, the effect halves them, the trait's default
\* returns the buffer as it is.  Writing beyond the buffer's length panics.
process_node(n, buf) ==
    IF n.node_type \in {"Generator", "Effect"} /\ n.params.buffer_size > Len(buf)
    THEN [panic |-> TRUE, buffer |-> buf]
    ELSE IF n.node_type = "Generator"
    THEN [panic |-> FALSE,
          buffer |-> [k \in 1 .. Len(buf) |->
                         IF k <= n.params.buffer_size THEN One ELSE buf[k]]]
    ELSE IF n.node_type = "Effect"
    THEN [panic |-> FALSE,
          buffer |-> [k \in 1 .. Len(buf) |->
                         IF k <= n.params.buffer_size THEN buf[k] \div 2 ELSE buf[k]]]
    ELSE [panic |-> FALSE, buffer |-> buf]

\* MapNode::new
MapNode == [parent |-> None, children |-> <<>>]

\* ------------------------------------------------------------------ helpers
NodeCount == Len(nodes)
Ids == 0 .. (NodeCount - 1)
Node(id) == nodes[id + 1]
Parent(id) == graph_map[id + 1].parent
Children(id) == graph_map[id + 1].children
InSeq(x, s) == \E i \in 1 .. Len(s) : s[i] = x

Call(op, out, in, port, code, id) ==
    [op |-> op, code |-> code, id |-> id,
     out |-> IF code = "Ok" THEN out ELSE None,
     in |-> IF code = "Ok" THEN in ELSE None,
     port |-> IF code = "Ok" THEN port ELSE None]

\* ------------------------------------------------------------------ Init
\* AudioGraph::new
Init ==
    /\ nodes = <<OutputNode>>
    /\ graph_map = <<MapNode>>
    /\ iter_stack = << <<0, 0, 0>> >>
    /\ iter_stack_size = 0
    /\ audio_runtime_params = [sampling_freq |-> 44100, buffer_size |-> 512]
    /\ pc = "idle"
    /\ visitLog = <<>>
    /\ lastOp = Call("new", None, None, None, "Ok", None)
    /\ outputConnects = 0
    /\ initLog = <<>>
    /\ buffer = <<>>
    /\ prevLog = <<>>

\* ------------------------------------------------------------------ add_new_node
\* add_new_node looking at the category only after the three pushes.
add_new_node_push_first(n) ==
    /\ pc = "idle"
    /\ nodes' = Append(nodes, n)
    /\ graph_map' = Append(graph_map, MapNode)
    /\ iter_stack' = Append(iter_stack, <<0, 0, 0>>)
    /\ lastOp' = IF n.node_type = "Output"
                 THEN Call("add_new_node", None, None, None, "CannotAddOutputTypeNode", None)
                 ELSE Call("add_new_node", None, None, None, "Ok", Len(nodes') - 1)
    /\ visitLog' = <<>> /\ initLog' = <<>> /\ buffer' = <<>> /\ prevLog' = <<>>
    /\ UNCHANGED <<iter_stack_size, audio_runtime_params, pc, outputConnects>>

\* add_new_node returning the arena's length instead of the last index.
add_new_node_returns_len(n) ==
    /\ pc = "idle"
    /\ IF n.node_type = "Output"
       THEN /\ lastOp' = Call("add_new_node", None, None, None, "CannotAddOutputTypeNode", None)
            /\ UNCHANGED <<nodes, graph_map, iter_stack>>
       ELSE /\ nodes' = Append(nodes, n)
            /\ graph_map' = Append(graph_map, MapNode)
            /\ iter_stack' = Append(iter_stack, <<0, 0, 0>>)
            /\ lastOp' = Call("add_new_node", None, None, None, "Ok", Len(nodes'))
    /\ visitLog' = <<>> /\ initLog' = <<>> /\ buffer' = <<>> /\ prevLog' = <<>>
    /\ UNCHANGED <<iter_stack_size, audio_runtime_params, pc, outputConnects>>

\* add_new_node without the push of line 228 (the traversal stack does not grow).
add_new_node_no_stack_push(n) ==
    /\ pc = "idle"
    /\ IF n.node_type = "Output"
       THEN /\ lastOp' = Call("add_new_node", None, None, None, "CannotAddOutputTypeNode", None)
            /\ UNCHANGED <<nodes, graph_map, iter_stack>>
       ELSE /\ nodes' = Append(nodes, n)
            /\ graph_map' = Append(graph_map, MapNode)
            /\ UNCHANGED iter_stack
            /\ lastOp' = Call("add_new_node", None, None, None, "Ok", Len(nodes') - 1)
    /\ visitLog' = <<>> /\ initLog' = <<>> /\ buffer' = <<>> /\ prevLog' = <<>>
    /\ UNCHANGED <<iter_stack_size, audio_runtime_params, pc, outputConnects>>

\* AudioGraph::add_new_node
add_new_node(n) ==
    /\ pc = "idle"
    /\ IF n.node_type = "Output"
       THEN /\ lastOp' = Call("add_new_node", None, None, None, "CannotAddOutputTypeNode", None)
            /\ UNCHANGED <<nodes, graph_map, iter_stack>>
       ELSE /\ nodes' = Append(nodes, n)
            /\ graph_map' = Append(graph_map, MapNode)
            /\ iter_stack' = Append(iter_stack, <<0, 0, 0>>)
            /\ lastOp' = Call("add_new_node", None, None, None, "Ok", Len(nodes') - 1)
    /\ visitLog' = <<>> /\ initLog' = <<>> /\ buffer' = <<>> /\ prevLog' = <<>>
    /\ UNCHANGED <<iter_stack_size, audio_runtime_params, pc, outputConnects>>

\* ------------------------------------------------------------------ connect_node
\* validate_node_inputs without the check of lines 303-309.
validate_node_inputs_no_self_check(node_out_id, node_in_id, node_in_input_port) ==
    IF node_in_id > NodeCount \/ node_out_id > NodeCount
    THEN "NodeIDNonExistent"
    ELSE IF node_in_id >= NodeCount
    THEN "Panic"
    ELSE IF node_in_input_port >= get_number_of_inputs(Node(node_in_id))
    THEN "NodeInputPortInvalid"
    ELSE IF get_next_available_input(Node(node_in_id)) = None
    THEN "NodeNoMoreInputs"
    ELSE IF node_out_id >= NodeCount
    THEN "Panic"
    ELSE IF InSeq(node_in_id, Children(node_out_id))
    THEN "ConnectionAlreadyExists"
    ELSE "Ok"

\* AudioGraph::validate_node_inputs: "Ok", an error code, or "Panic" where the
\* code indexes a Vec out of bounds.
\* validate_node_inputs without the check of lines 295-301.
validate_node_inputs_no_free_check(node_out_id, node_in_id, node_in_input_port) ==
    IF node_in_id > NodeCount \/ node_out_id > NodeCount
    THEN "NodeIDNonExistent"
    ELSE IF node_in_id >= NodeCount
    THEN "Panic"
    ELSE IF node_in_input_port >= get_number_of_inputs(Node(node_in_id))
    THEN "NodeInputPortInvalid"
    ELSE IF node_out_id = node_in_id
    THEN "NodeConnectingToItself"
    ELSE IF node_out_id >= NodeCount
    THEN "Panic"
    ELSE IF InSeq(node_in_id, Children(node_out_id))
    THEN "ConnectionAlreadyExists"
    ELSE "Ok"

\* validate_node_inputs accepting only the consumer's next free port.
validate_node_inputs_next_port(node_out_id, node_in_id, node_in_input_port) ==
    IF node_in_id > NodeCount \/ node_out_id > NodeCount
    THEN "NodeIDNonExistent"
    ELSE IF node_in_id >= NodeCount
    THEN "Panic"
    ELSE IF node_in_input_port >= get_number_of_inputs(Node(node_in_id))
    THEN "NodeInputPortInvalid"
    ELSE IF get_next_available_input(Node(node_in_id)) = None
    THEN "NodeNoMoreInputs"
    ELSE IF node_in_input_port # get_next_available_input(Node(node_in_id))
    THEN "NodeInputPortInvalid"
    ELSE IF node_out_id = node_in_id
    THEN "NodeConnectingToItself"
    ELSE IF node_out_id >= NodeCount
    THEN "Panic"
    ELSE IF InSeq(node_in_id, Children(node_out_id))
    THEN "ConnectionAlreadyExists"
    ELSE "Ok"

validate_node_inputs(node_out_id, node_in_id, node_in_input_port) ==
    IF node_in_id > NodeCount \/ node_out_id > NodeCount
    THEN "NodeIDNonExistent"
    ELSE IF node_in_id >= NodeCount
    THEN "Panic"
    ELSE IF node_in_input_port >= get_number_of_inputs(Node(node_in_id))
    THEN "NodeInputPortInvalid"
    ELSE IF get_next_available_input(Node(node_in_id)) = None
    THEN "NodeNoMoreInputs"
    ELSE IF node_out_id = node_in_id
    THEN "NodeConnectingToItself"
    ELSE IF node_out_id >= NodeCount
    THEN "Panic"
    ELSE IF InSeq(node_in_id, Children(node_out_id))
    THEN "ConnectionAlreadyExists"
    ELSE "Ok"

\* connect_node taking the None arm of line 257 whatever the source's parent is.
connect_result_any_parent(node_out_id, node_in_id, node_in_input_port) ==
    validate_node_inputs(node_out_id, node_in_id, node_in_input_port)

\* The result code of AudioGraph::connect_node in the current state.
connect_result(node_out_id, node_in_id, node_in_input_port) ==
    LET v == validate_node_inputs(node_out_id, node_in_id, node_in_input_port)
    IN  IF v # "Ok" THEN v
        ELSE IF Parent(node_out_id) = None THEN "Ok"
        ELSE "NodeParentAlreadyExists"

\* The arena after connect_node returned r: line 260 runs in the Ok arm only.
connected_nodes(node_out_id, node_in_id, r) ==
    IF r = "Ok"
    THEN [nodes EXCEPT ![node_in_id + 1] = connect_input(@)]
    ELSE nodes

\* connect_node pushing the child (line 259) before it looks at the parent.
connected_map_push_first(node_out_id, node_in_id, r) ==
    IF r = "Ok"
    THEN [graph_map EXCEPT ![node_in_id + 1].children = Append(@, node_out_id),
                           ![node_out_id + 1].parent = node_in_id]
    ELSE IF r = "NodeParentAlreadyExists"
    THEN [graph_map EXCEPT ![node_in_id + 1].children = Append(@, node_out_id)]
    ELSE graph_map

\* connect_node inserting the child at the head of the children list.
connected_map_prepend(node_out_id, node_in_id, r) ==
    IF r = "Ok"
    THEN [graph_map EXCEPT ![node_in_id + 1].children = <<node_out_id>> \o @,
                           ![node_out_id + 1].parent = node_in_id]
    ELSE graph_map

\* connect_node without the parent assignment of line 262.
connected_map_no_parent(node_out_id, node_in_id, r) ==
    IF r = "Ok"
    THEN [graph_map EXCEPT ![node_in_id + 1].children = Append(@, node_out_id)]
    ELSE graph_map

\* The topology map after connect_node returned r: lines 259 and 262 run in the
\* Ok arm only.
connected_map(node_out_id, node_in_id, r) ==
    IF r = "Ok"
    THEN [graph_map EXCEPT ![node_in_id + 1].children = Append(@, node_out_id),
                           ![node_out_id + 1].parent = node_in_id]
    ELSE graph_map

\* The body of AudioGraph::connect_node, shared with connect_node_to_output.
connect_body(op, node_out_id, node_in_id, node_in_input_port) ==
    LET r == connect_result(node_out_id, node_in_id, node_in_input_port)
    IN  /\ lastOp' = Call(op, node_out_id, node_in_id, node_in_input_port, r, None)
        /\ pc' = IF r = "Panic" THEN "panicked" ELSE pc
        /\ nodes' = connected_nodes(node_out_id, node_in_id, r)
        /\ graph_map' = connected_map(node_out_id, node_in_id, r)
        /\ outputConnects' = IF op = "connect_node_to_output" /\ r = "Ok"
                             THEN outputConnects + 1 ELSE outputConnects
        /\ visitLog' = <<>> /\ initLog' = <<>> /\ buffer' = <<>> /\ prevLog' = <<>>
        /\ UNCHANGED <<iter_stack, iter_stack_size, audio_runtime_params>>

connect_node(node_out_id, node_in_id, node_in_input_port) ==
    /\ pc = "idle"
    /\ connect_body("connect_node", node_out_id, node_in_id, node_in_input_port)

connect_node_to_output(node_out_id) ==
    /\ pc = "idle"
    /\ IF get_next_available_input(Node(0)) # None
       THEN connect_body("connect_node_to_output", node_out_id, 0,
                         get_next_available_input(Node(0)))
       ELSE /\ lastOp' = Call("connect_node_to_output", node_out_id, 0, None,
                              "NodeNoMoreInputs", None)
            /\ visitLog' = <<>> /\ initLog' = <<>> /\ buffer' = <<>> /\ prevLog' = <<>>
            /\ UNCHANGED <<nodes, graph_map, iter_stack, iter_stack_size,
                           audio_runtime_params, pc, outputConnects>>

\* ------------------------------------------------------------------ prepare
SamplingFreqs == {-1, 0, 44100}
BufferSizes == {0, BlockSize \div 2, BlockSize}

\* The arena visited from its last node to the sink.
arena_order_reversed == [k \in 1 .. NodeCount |-> NodeCount - k]

\* The ids of the arena in the order `for node in &mut self.nodes` visits them.
arena_order == [k \in 1 .. NodeCount |-> k - 1]

\* prepare storing the configuration before it validates it.
prepare_store_first(audio_parameters) ==
    /\ pc = "idle"
    /\ audio_runtime_params' = audio_parameters
    /\ IF audio_parameters.buffer_size = 0
       THEN /\ lastOp' = Call("prepare", None, None, None, "InvalidBufferSize", None)
            /\ initLog' = <<>>
            /\ UNCHANGED nodes
       ELSE IF audio_parameters.sampling_freq <= 0
       THEN /\ lastOp' = Call("prepare", None, None, None, "InvalidSamplingFrequency", None)
            /\ initLog' = <<>>
            /\ UNCHANGED nodes
       ELSE /\ nodes' = [k \in 1 .. NodeCount |->
                            init(Node(arena_order[k]), audio_parameters)]
            /\ initLog' = arena_order
            /\ lastOp' = Call("prepare", None, None, None, "Ok", None)
    /\ visitLog' = <<>> /\ buffer' = <<>>
    /\ UNCHANGED prevLog
    /\ UNCHANGED <<graph_map, iter_stack, iter_stack_size, pc, outputConnects>>

\* AudioGraph::prepare
prepare(audio_parameters) ==
    /\ pc = "idle"
    /\ IF audio_parameters.buffer_size = 0
       THEN /\ lastOp' = Call("prepare", None, None, None, "InvalidBufferSize", None)
            /\ initLog' = <<>>
            /\ UNCHANGED <<audio_runtime_params, nodes>>
       ELSE IF audio_parameters.sampling_freq <= 0
       THEN /\ lastOp' = Call("prepare", None, None, None, "InvalidSamplingFrequency", None)
            /\ initLog' = <<>>
            /\ UNCHANGED <<audio_runtime_params, nodes>>
       ELSE /\ audio_runtime_params' = audio_parameters
            /\ nodes' = [k \in 1 .. NodeCount |->
                            init(Node(arena_order[k]), audio_parameters)]
            /\ initLog' = arena_order
            /\ lastOp' = Call("prepare", None, None, None, "Ok", None)
    /\ visitLog' = <<>> /\ buffer' = <<>>
    /\ UNCHANGED prevLog
    /\ UNCHANGED <<graph_map, iter_stack, iter_stack_size, pc, outputConnects>>

\* ------------------------------------------------------------------ traversal
\* AudioGraph::go_to_branch_end: the stack after the loop, or panic when the
\* loop writes iter_stack[iter_stack_size] at or beyond the Vec's length.
RECURSIVE go_to_branch_end(_, _, _)
go_to_branch_end(stack, size, current_id) ==
    IF size >= Len(stack)
    THEN [stack |-> stack, size |-> size, panic |-> TRUE]
    ELSE LET pushed == [stack EXCEPT ![size + 1] =
                            <<current_id, Len(Children(current_id)), 0>>]
         IN  IF Len(Children(current_id)) > 0
             THEN go_to_branch_end(pushed, size + 1, Children(current_id)[1])
             ELSE [stack |-> pushed, size |-> size + 1, panic |-> FALSE]

\* The sibling-advance arm of AudioGraph::next (lines 390-396): mark, then descend.
advance_sibling(stack, size) ==
    LET top == stack[size]
    IN  IF size >= Len(stack)
        THEN [stack |-> stack, size |-> size, panic |-> TRUE]
        ELSE LET marked == [stack EXCEPT ![size + 1][3] = top[3] + 1]
             IN  go_to_branch_end(marked, size, Children(top[1])[top[3] + 2])

\* AudioGraph::next for iter_stack_size > 0: the stack before the final pop.
next_descend(stack, size) ==
    LET top == stack[size]
    IN  IF top[3] + 1 < top[2]
        THEN advance_sibling(stack, size)
        ELSE [stack |-> stack, size |-> size, panic |-> FALSE]

\* next returning the id in the bottom entry of the stack.
next_node_id_bottom(stack, size) == stack[1][1]

\* AudioGraph::next, line 398: the id in the top entry, returned after the pop.
next_node_id(stack, size) == stack[size][1]

Log(id) == IF Len(visitLog) < MaxLog THEN Append(visitLog, id) ELSE visitLog

\* process_block, line 356: self.go_to_branch_end(0)
process_block_begin ==
    /\ pc = "idle"
    /\ LET r == go_to_branch_end(iter_stack, iter_stack_size, 0)
       IN  /\ iter_stack' = r.stack
           /\ iter_stack_size' = r.size
           /\ pc' = IF r.panic THEN "panicked" ELSE "processing"
    /\ visitLog' = <<>> /\ initLog' = <<>>
    /\ buffer' = [k \in 1 .. BlockSize |-> 0]
    /\ lastOp' = Call("process_block", None, None, None, "Running", None)
    /\ UNCHANGED <<nodes, graph_map, audio_runtime_params, outputConnects, prevLog>>

\* process_block, lines 358-361: next() returns Some(node); the node processes.
process_block_step ==
    /\ pc = "processing"
    /\ iter_stack_size > 0
    /\ LET r == next_descend(iter_stack, iter_stack_size)
       IN  IF r.panic
           THEN /\ iter_stack' = r.stack
                /\ iter_stack_size' = r.size
                /\ pc' = "panicked"
                /\ UNCHANGED <<visitLog, buffer>>
           ELSE LET node == next_node_id(r.stack, r.size)
                    out == process_node(Node(node), buffer)
                IN  /\ iter_stack' = r.stack
                    /\ iter_stack_size' = r.size - 1
                    /\ visitLog' = Log(node)
                    /\ buffer' = out.buffer
                    /\ pc' = IF out.panic THEN "panicked" ELSE pc
    /\ UNCHANGED <<nodes, graph_map, audio_runtime_params, lastOp, outputConnects, initLog,
                   prevLog>>

\* process_block returning while the sink's entry is still on the stack.
process_block_return_early ==
    /\ pc = "processing"
    /\ iter_stack_size <= 1
    /\ pc' = "idle"
    /\ lastOp' = Call("process_block", None, None, None, "Ok", None)
    /\ prevLog' = visitLog
    /\ UNCHANGED <<nodes, graph_map, iter_stack, iter_stack_size, audio_runtime_params,
                   visitLog, outputConnects, initLog, buffer>>

\* process_block, lines 358 and 363: next() returns None; the call returns.
process_block_return ==
    /\ pc = "processing"
    /\ iter_stack_size = 0
    /\ pc' = "idle"
    /\ lastOp' = Call("process_block", None, None, None, "Ok", None)
    /\ prevLog' = visitLog
    /\ UNCHANGED <<nodes, graph_map, iter_stack, iter_stack_size, audio_runtime_params,
                   visitLog, outputConnects, initLog, buffer>>

\* ------------------------------------------------------------------ Next
\* Ids a caller may pass: every existing id, the id equal to the node count and
\* one beyond it.
CallIds == 0 .. (NodeCount + 1)
\* Ports a caller may pass: the first port, the last port of a mixer and a port
\* no node has.
Ports == {0, MaxInputs - 1, MaxInputs}

\* The arena stops growing at the bound; a rejected registration is always possible.
CanAdd(n, limit) == n.node_type = "Output" \/ NodeCount < limit

Next ==
    \/ \E n \in NewNodes : CanAdd(n, MaxNodes) /\ add_new_node(n)
    \/ \E o \in CallIds, i \in CallIds, p \in Ports : connect_node(o, i, p)
    \/ \E o \in CallIds : connect_node_to_output(o)

Spec == Init /\ [][Next]_vars

\* A caller that registers nodes, wires them with calls that succeed (passing
\* the consumer's next free port, as connect_node_to_output does) and runs
\* process_block, in any interleaving.
NextTraversal ==
    \/ \E n \in NewNodes \ {TestOutputNode} : CanAdd(n, MaxTreeNodes) /\ add_new_node(n)
    \/ \E o \in Ids, i \in Ids :
           /\ connect_result(o, i, get_next_available_input(Node(i))) = "Ok"
           /\ connect_node(o, i, get_next_available_input(Node(i)))
    \/ process_block_begin
    \/ process_block_step
    \/ process_block_return

SpecTraversal == Init /\ [][NextTraversal]_vars

\* The configurations a caller passes to prepare.
AudioParams == [sampling_freq : SamplingFreqs, buffer_size : BufferSizes]

\* The whole life of a graph: a caller registers nodes (the rejected kind
\* included), wires them with calls that succeed, prepares the graph with valid
\* and invalid configurations and runs process_block, in any interleaving.
NextLifecycle ==
    \/ \E n \in NewNodes : CanAdd(n, MaxLifeNodes) /\ add_new_node(n)
    \/ \E o \in Ids, i \in Ids :
           /\ connect_result(o, i, get_next_available_input(Node(i))) = "Ok"
           /\ connect_node(o, i, get_next_available_input(Node(i)))
    \/ \E a \in AudioParams : prepare(a)
    \/ process_block_begin
    \/ process_block_step
    \/ process_block_return

SpecLifecycle == Init /\ [][NextLifecycle]_vars

\* ------------------------------------------------------------------ chains
\* The nodes met going from id to its first child, and on, for at most fuel
\* steps, deepest first: for a chain n_1 -> ... -> n_k -> id it is
\* <<n_1, ..., n_k, id>>.
RECURSIVE Descent(_, _)
Descent(id, fuel) ==
    IF fuel = 0 \/ Len(Children(id)) = 0
    THEN <<id>>
    ELSE Append(Descent(Children(id)[1], fuel - 1), id)

\* The sink is fed by a single-input chain: going up from the sink every node
\* has one child, until a node with none.
SinkChain == Descent(0, NodeCount)
IsChain ==
    /\ Len(SinkChain) <= NodeCount
    /\ \A k \in 1 .. Len(SinkChain) : Len(Children(SinkChain[k])) <= 1

\* ------------------------------------------------------------------ topology predicates
\* The k-th downstream consumer of x (None once the chain of parents ends).
RECURSIVE KthParent(_, _)
KthParent(x, k) ==
    IF k = 0 \/ x = None THEN x ELSE KthParent(Parent(x), k - 1)

\* Following parent links from x comes back to x.
OnCycle(x) == \E k \in 1 .. NodeCount : KthParent(x, k) = x

\* The parent links form a forest of in-trees.
Forest == \A x \in Ids : ~OnCycle(x)

\* y is the sink or one of its transitive upstream sources.
FeedsSink(y) == \E k \in 0 .. NodeCount : KthParent(y, k) = 0

ConnectOps == {"connect_node", "connect_node_to_output"}
ErrorCodes == {"NodeIDNonExistent", "NodeInputPortInvalid", "NodeNoMoreInputs",
               "NodeParentAlreadyExists", "NodeConnectingToItself",
               "CannotAddOutputTypeNode", "ConnectionAlreadyExists",
               "InvalidBufferSize", "InvalidSamplingFrequency"}

\* ------------------------------------------------------------------ claims
\* C1: on a forest topology, process_block hands every node that feeds the sink
\* to its process hook exactly once, after all of that node's upstream sources
\* (so before its downstream consumer), mixers with several sources included.
C1_ProcessOrder ==
    Forest =>
        /\ \A j \in 1 .. Len(visitLog), k \in 1 .. Len(visitLog) :
               j # k => visitLog[j] # visitLog[k]
        /\ \A k \in 1 .. Len(visitLog) :
               \A c \in 1 .. Len(Children(visitLog[k])) :
                   \E j \in 1 .. (k - 1) : visitLog[j] = Children(visitLog[k])[c]
        /\ (pc = "idle" /\ lastOp.op = "process_block") =>
               \A y \in Ids : FeedsSink(y) => InSeq(y, visitLog)

\* C2: after any sequence of add_new_node / connect_node / connect_node_to_output
\* calls the parent links contain no cycle of any length.
C2_NoCycles == Forest

\* C3: connect_node with a source or consumer id >= the node count returns
\* NodeIDNonExistent, does not abort and leaves the graph unchanged.
C3_NonExistentIdRejected ==
    [][\A o \in CallIds, i \in CallIds, p \in Ports :
           ((o >= NodeCount \/ i >= NodeCount) /\ connect_node(o, i, p)) =>
               /\ lastOp'.code = "NodeIDNonExistent"
               /\ pc' # "panicked"
               /\ UNCHANGED graph]_vars

\* C4: right after connect_node(a, b, p) succeeded, the same call again fails
\* with ConnectionAlreadyExists and leaves parents, children and counters as the
\* first call left them.
C4_RepeatedConnect ==
    [][(lastOp.op = "connect_node" /\ lastOp.code = "Ok"
            /\ connect_node(lastOp.out, lastOp.in, lastOp.port)) =>
           /\ lastOp'.code = "ConnectionAlreadyExists"
           /\ UNCHANGED <<nodes, graph_map>>]_vars

\* A connect_node(o, i, p) call is possible in every state outside process_block
\* and returns connect_result(o, i, p); what a call with given arguments returns
\* is therefore stated as a property of connect_result in every reachable state.

\* C5 as stated: connect_node(a, a, p) on a registered a fails with
\* NodeConnectingToItself for every port p and every state of a.
C5_SelfConnectAlwaysItself ==
    [][\A a \in Ids, p \in Ports :
           connect_node(a, a, p) => lastOp'.code = "NodeConnectingToItself"]_vars

\* C5: connect_node(a, a, p) on a registered a always fails; the error is
\* NodeInputPortInvalid when p is not below a's input count, otherwise
\* NodeNoMoreInputs when a has no free input, otherwise NodeConnectingToItself.
C5_SelfConnect ==
    \A a \in Ids, p \in Ports :
        connect_result(a, a, p) =
            IF p >= Node(a).num_inputs THEN "NodeInputPortInvalid"
            ELSE IF Node(a).next_available_input >= Node(a).num_inputs
                 THEN "NodeNoMoreInputs"
                 ELSE "NodeConnectingToItself"

\* A self-connection was rejected as such on a registered node other than the
\* sink (the sink has no free input here, so it would answer NodeNoMoreInputs).
C5_Witness ==
    /\ lastOp.op = "connect_node"
    /\ lastOp.code = "NodeConnectingToItself"
    /\ Node(0).next_available_input = 1

C7_SingleOutputConnect ==
    [][/\ outputConnects' <= 1
       /\ (lastOp'.op = "connect_node_to_output"
               /\ Node(0).next_available_input >= Node(0).num_inputs) =>
              /\ lastOp'.code = "NodeNoMoreInputs"
              /\ UNCHANGED graph
              /\ UNCHANGED outputConnects]_vars

\* connect_node_to_output succeeded once and a later call was refused.
C7_Witness ==
    /\ lastOp.op = "connect_node_to_output"
    /\ lastOp.code = "NodeNoMoreInputs"
    /\ outputConnects = 1

\* C8: a connect_node or connect_node_to_output call that returns an error leaves
\* the arena, the topology map, the counters, the traversal stack and the
\* configuration unchanged.
C8_ErrorLeavesGraph ==
    [][(lastOp'.op \in ConnectOps /\ lastOp'.code \in ErrorCodes) =>
           UNCHANGED graph]_vars

\* connect_node_to_output passed validation and was refused at the parent check.
C8_Witness ==
    /\ lastOp.op = "connect_node_to_output"
    /\ lastOp.code = "NodeParentAlreadyExists"

\* C9: a successful connect_node(source, consumer, port) appends source at the
\* end of consumer's children, advances consumer's counter by one, makes
\* consumer the parent of source, and changes nothing else.
C9_ConnectEffect ==
    [][(lastOp'.op = "connect_node" /\ lastOp'.code = "Ok") =>
           LET o == lastOp'.out
               i == lastOp'.in
           IN  /\ o \in Ids /\ i \in Ids
               /\ Len(nodes') = Len(nodes)
               /\ Len(graph_map') = Len(graph_map)
               /\ graph_map'[i + 1] = [parent |-> Parent(i),
                                       children |-> Append(Children(i), o)]
               /\ graph_map'[o + 1] = [parent |-> i, children |-> Children(o)]
               /\ nodes'[i + 1] = [node_type |-> Node(i).node_type,
                                   num_inputs |-> Node(i).num_inputs,
                                   next_available_input |->
                                       Node(i).next_available_input + 1,
                                   params |-> Node(i).params]
               /\ \A x \in Ids \ {o, i} : graph_map'[x + 1] = graph_map[x + 1]
               /\ \A x \in Ids \ {i} : nodes'[x + 1] = nodes[x + 1]
               /\ UNCHANGED <<iter_stack, iter_stack_size, audio_runtime_params>>]_vars

\* A successful connect_node gave a consumer its second child.
C9_Witness ==
    /\ lastOp.op = "connect_node"
    /\ lastOp.code = "Ok"
    /\ Len(Children(lastOp.in)) = 2

\* C10: add_new_node with an Output node fails with CannotAddOutputTypeNode in
\* every state and leaves the arena, the topology map and the traversal stack
\* as they were.
C10_OutputNodeRejected ==
    [][add_new_node(TestOutputNode) =>
           /\ lastOp'.code = "CannotAddOutputTypeNode"
           /\ UNCHANGED <<nodes, graph_map, iter_stack>>]_vars

\* An Output node was rejected by a graph that already holds registered nodes.
C10_Witness ==
    /\ lastOp.op = "add_new_node"
    /\ lastOp.code = "CannotAddOutputTypeNode"
    /\ NodeCount = MaxNodes

\* C11: the k-th successful add_new_node returns id k: a successful call
\* returns the number of nodes registered before it plus one (the arena's
\* length before the call, never 0), the arena grows by one, and no other call
\* (a rejected registration, a connect, a prepare, a process_block) changes the
\* arena's length, so ids are strictly increasing and never reused.
C11_SequentialIds ==
    [][LET added == /\ lastOp'.op = "add_new_node"
                    /\ lastOp'.code = "Ok"
                    /\ (lastOp' # lastOp \/ nodes' # nodes)
       IN  /\ added => /\ lastOp'.id = NodeCount
                       /\ lastOp'.id >= 1
                       /\ NodeCount' = NodeCount + 1
           /\ ~added => NodeCount' = NodeCount]_vars

\* The second successful registration returned 2 on a graph that had been
\* prepared before.
C11_Witness ==
    /\ lastOp.op = "add_new_node"
    /\ lastOp.code = "Ok"
    /\ lastOp.id = 2
    /\ Node(1).params.buffer_size = BlockSize

\* C12 as stated: every prepare with buffer_size = 0 fails with
\* InvalidBufferSize, every prepare with sampling_freq <= 0 fails with
\* InvalidSamplingFrequency, and both leave the stored configuration and the
\* nodes alone.
C12_InvalidFreqAlwaysFreqError ==
    [][\A a \in AudioParams :
           prepare(a) =>
               /\ a.buffer_size = 0 => lastOp'.code = "InvalidBufferSize"
               /\ a.sampling_freq <= 0 => lastOp'.code = "InvalidSamplingFrequency"
               /\ (a.buffer_size = 0 \/ a.sampling_freq <= 0) =>
                      /\ UNCHANGED <<audio_runtime_params, nodes>>
                      /\ initLog' = <<>>]_vars

\* C12: prepare with buffer_size = 0 fails with InvalidBufferSize; prepare with
\* a buffer_size above 0 and sampling_freq <= 0 fails with
\* InvalidSamplingFrequency; in both cases the stored configuration and every
\* node are unchanged and no init hook is called.
C12_InvalidPrepare ==
    [][\A a \in AudioParams :
           prepare(a) =>
               /\ a.buffer_size = 0 => lastOp'.code = "InvalidBufferSize"
               /\ (a.buffer_size # 0 /\ a.sampling_freq <= 0) =>
                      lastOp'.code = "InvalidSamplingFrequency"
               /\ (a.buffer_size = 0 \/ a.sampling_freq <= 0) =>
                      /\ UNCHANGED <<audio_runtime_params, nodes>>
                      /\ initLog' = <<>>]_vars

\* A prepare was rejected on a graph that holds a configuration stored by an
\* earlier prepare, in the graph and in a node.
C12_Witness ==
    /\ lastOp.op = "prepare"
    /\ lastOp.code = "InvalidSamplingFrequency"
    /\ audio_runtime_params.buffer_size = BlockSize \div 2
    /\ \E x \in Ids : Node(x).params = audio_runtime_params

\* C13: a successful prepare stores the given configuration, calls init once
\* on every node of the arena in the order 0, 1, ..., n (every model generator
\* and effect then holds the configuration, nothing else of a node changes),
\* and leaves the topology and the traversal stack unchanged; when the call
\* before it was a successful prepare with the same configuration, the init
\* calls and the whole graph state are the same as after that call.
C13_PrepareInits ==
    [][\A a \in AudioParams :
           (prepare(a) /\ lastOp'.code = "Ok") =>
               /\ audio_runtime_params' = a
               /\ initLog' = [k \in 1 .. NodeCount |-> k - 1]
               /\ NodeCount' = NodeCount
               /\ \A x \in Ids :
                      nodes'[x + 1] =
                          IF Node(x).node_type \in {"Generator", "Effect"}
                          THEN [Node(x) EXCEPT !.params = a]
                          ELSE Node(x)
               /\ UNCHANGED <<graph_map, iter_stack, iter_stack_size>>
               /\ (lastOp.op = "prepare" /\ lastOp.code = "Ok"
                      /\ audio_runtime_params = a) =>
                      /\ initLog' = initLog
                      /\ UNCHANGED graph]_vars

\* A successful prepare initialised a wired graph of three nodes that held
\* another configuration before.
C13_Witness ==
    /\ lastOp.op = "prepare"
    /\ lastOp.code = "Ok"
    /\ initLog = <<0, 1, 2>>
    /\ Len(Children(0)) = 1
    /\ \E x \in Ids : /\ Node(x).node_type = "Effect"
                       /\ Node(x).params = audio_runtime_params
                       /\ Node(x).params.buffer_size = BlockSize \div 2

\* C14: when the sink is fed by a single-input chain n_1 -> ... -> n_k -> sink,
\* a process_block call runs the process hooks along n_1, ..., n_k, sink (what
\* it has run so far is a prefix of that order, without a panic) and when it
\* returns it has run exactly that order; when the chain is a generator into
\* an effect into the sink, both prepared with block size 4, the buffer the
\* call returns holds four halves.
C14_ChainOrder ==
    (lastOp.op = "process_block" /\ IsChain) =>
        /\ pc # "panicked"
        /\ Len(visitLog) <= Len(SinkChain)
        /\ \A k \in 1 .. Len(visitLog) : visitLog[k] = SinkChain[k]
        /\ pc = "idle" =>
               /\ visitLog = SinkChain
               /\ (/\ Len(SinkChain) = 3
                   /\ Node(SinkChain[1]).node_type = "Generator"
                   /\ Node(SinkChain[2]).node_type = "Effect"
                   /\ Node(SinkChain[1]).params.buffer_size = BlockSize
                   /\ Node(SinkChain[2]).params.buffer_size = BlockSize) =>
                      buffer = [k \in 1 .. BlockSize |-> One \div 2]

\* process_block returned on generator -> effect -> sink, prepared with block
\* size 4, with the buffer at four halves.
C14_Witness ==
    /\ lastOp.op = "process_block"
    /\ lastOp.code = "Ok"
    /\ IsChain
    /\ Len(SinkChain) = 3
    /\ visitLog = SinkChain
    /\ Node(visitLog[1]).node_type = "Generator"
    /\ Node(visitLog[2]).node_type = "Effect"
    /\ audio_runtime_params.buffer_size = BlockSize
    /\ buffer = [k \in 1 .. BlockSize |-> One \div 2]

\* C15: in every reachable state the node arena, the topology map and the
\* traversal stack buffer have the same length: 1 after new(), and the id
\* returned by the last successful add_new_node plus one right after it.
C15_SameLength ==
    /\ Len(nodes) = Len(graph_map)
    /\ Len(graph_map) = Len(iter_stack)
    /\ lastOp.op = "new" => Len(nodes) = 1
    /\ (lastOp.op = "add_new_node" /\ lastOp.code = "Ok") => Len(nodes) = lastOp.id + 1

\* A graph of three nodes has been wired, prepared and run.
C15_Witness ==
    /\ Len(iter_stack) = 3
    /\ lastOp.op = "process_block"
    /\ lastOp.code = "Ok"
    /\ Len(visitLog) = 3
    /\ audio_runtime_params.buffer_size = BlockSize

\* C16: in every reachable state every node's consumed-input counter and the
\* length of its children list are at most its declared input count; the sink
\* has at most one child.
C16_InputsBounded ==
    /\ \A x \in Ids :
           /\ Node(x).next_available_input <= get_number_of_inputs(Node(x))
           /\ Len(Children(x)) <= get_number_of_inputs(Node(x))
    /\ Len(Children(0)) <= 1

\* A connect was refused for want of a free input while the sink and an
\* effect each hold the one child they have an input for.
C16_Witness ==
    /\ lastOp.code = "NodeNoMoreInputs"
    /\ Len(Children(0)) = 1
    /\ Node(0).next_available_input = 1
    /\ \E x \in Ids : /\ Node(x).node_type = "Effect"
                       /\ Len(Children(x)) = 1
                       /\ Node(x).next_available_input = 1

\* C17: a process_block call terminates on every graph built by add_new_node
\* and connect calls.  next() is a function of the traversal stack, its size
\* and the topology map, and no process hook changes them, so the loop of
\* process_block ends only if no call of next() that returns a node leaves the
\* stack and its size exactly as it found them.
C17_NextMakesProgress ==
    [][process_block_step =>
           <<iter_stack, iter_stack_size>>' # <<iter_stack, iter_stack_size>>]_vars

\* C18: when next() finds the top entry (id, childCount, childIndex) with
\* childIndex + 1 < childCount, that entry holds childIndex + 1 once next()
\* has descended into the sibling and returned.
C18_SiblingIndexAdvanced ==
    [][(/\ process_block_step
        /\ iter_stack[iter_stack_size][3] + 1 < iter_stack[iter_stack_size][2]) =>
           /\ iter_stack'[iter_stack_size][1] = iter_stack[iter_stack_size][1]
           /\ iter_stack'[iter_stack_size][3] = iter_stack[iter_stack_size][3] + 1]_vars

\* C19: during process_block no access of the traversal stack is at or beyond
\* its capacity (no out-of-range panic in go_to_branch_end or next) and the
\* stack depth never exceeds the node count.
C19_StackInRange ==
    /\ pc # "panicked"
    /\ iter_stack_size <= NodeCount

\* C20: connect_node returns the error of the first failing check in the order
\* id existence (an id is that of a registered node), port range, free input
\* on the consumer, self-connection, existing connection (the source is
\* already a child of the consumer), existing parent.
C20_CheckOrder ==
    [][\A o \in CallIds, i \in CallIds, p \in Ports :
           connect_node(o, i, p) =>
               lastOp'.code =
                   IF o \notin Ids \/ i \notin Ids
                   THEN "NodeIDNonExistent"
                   ELSE IF p >= get_number_of_inputs(Node(i))
                   THEN "NodeInputPortInvalid"
                   ELSE IF get_next_available_input(Node(i)) = None
                   THEN "NodeNoMoreInputs"
                   ELSE IF o = i
                   THEN "NodeConnectingToItself"
                   ELSE IF InSeq(o, Children(i))
                   THEN "ConnectionAlreadyExists"
                   ELSE IF Parent(o) # None
                   THEN "NodeParentAlreadyExists"
                   ELSE "Ok"]_vars

\* C21: in every reachable state the sink (id 0) has no parent and is in no
\* node's children list: no connect_node call with source 0 succeeds.
C21_SinkIsRoot ==
    /\ Parent(0) = None
    /\ \A y \in Ids : ~InSeq(0, Children(y))

\* C22: every process_block call starts its traversal with an empty stack and
\* returns with an empty stack, and a call that returns after an earlier call
\* that returned, with no change of the topology map in between, has processed
\* the same sequence of node ids as that call.
C22_EmptyStackBetweenCalls ==
    [][/\ process_block_begin => iter_stack_size = 0
       /\ process_block_return =>
              /\ iter_stack_size' = 0
              /\ prevLog # <<>> => visitLog' = prevLog]_vars

\* A second process_block call on generator -> effect -> sink, prepared with
\* block size 4, has processed the ids the first call processed and emptied
\* the stack.
C22_Witness ==
    /\ pc = "processing"
    /\ iter_stack_size = 0
    /\ prevLog = <<2, 1, 0>>
    /\ visitLog = prevLog
    /\ buffer = [k \in 1 .. BlockSize |-> One \div 2]

\* C23: in every reachable state x is in the children list of y exactly when
\* parent(x) = y, no id occurs twice in one children list, no id occurs in the
\* children lists of two nodes, and no node is its own child.
C23_WellFormedMap ==
    /\ \A x \in Ids, y \in Ids : InSeq(x, Children(y)) <=> Parent(x) = y
    /\ \A y \in Ids : \A j \in 1 .. Len(Children(y)), k \in 1 .. Len(Children(y)) :
           j # k => Children(y)[j] # Children(y)[k]
    /\ \A x \in Ids, y \in Ids, z \in Ids :
           (InSeq(x, Children(y)) /\ InSeq(x, Children(z))) => y = z
    /\ \A x \in Ids : ~InSeq(x, Children(x))
    /\ \A x \in Ids : Parent(x) = None \/ Parent(x) \in Ids
    /\ \A y \in Ids : \A k \in 1 .. Len(Children(y)) : Children(y)[k] \in Ids

\* A connect of a node that has a parent was refused on the chain
\* 2 -> 1 -> sink.
C23_Witness ==
    /\ lastOp.code = "NodeParentAlreadyExists"
    /\ Children(0) = <<1>>
    /\ Children(1) = <<2>>
    /\ Parent(2) = 1

\* C24: in every reachable state, for every source and every registered
\* consumer, connect_node has the same outcome for any two ports below the
\* consumer's input count (the state it leaves depends on the outcome, the
\* source and the consumer only); a successful call appends the source to the
\* consumer's children whatever the port.
C24_PortOnlyRangeChecked ==
    /\ \A o \in CallIds, i \in Ids, p \in Ports, q \in Ports :
           (p < get_number_of_inputs(Node(i)) /\ q < get_number_of_inputs(Node(i))) =>
               connect_result(o, i, p) = connect_result(o, i, q)
    /\ (lastOp.op = "connect_node" /\ lastOp.code = "Ok") =>
           /\ lastOp.port < get_number_of_inputs(Node(lastOp.in))
           /\ Children(lastOp.in)[Len(Children(lastOp.in))] = lastOp.out

\* A consumer with two inputs took its second child on port 0, and its
\* children are in the order of the calls.
C24_Witness ==
    /\ lastOp.op = "connect_node"
    /\ lastOp.code = "Ok"
    /\ lastOp.port = 0
    /\ Len(Children(lastOp.in)) = 2
    /\ Children(lastOp.in)[2] = lastOp.out

====
